---- MODULE Spec2Model ----
(***************************************************************************)
(* The VisionFeed component (cinematic focus tracker): the render loop,    *)
(* throttled asynchronous detection, click selection, IoU tracking with    *)
(* reacquisition, and the per-frame smoother.                              *)
(*                                                                         *)
(* Numbers.  The component computes in IEEE doubles.  Here every smoothed  *)
(* quantity (zoom, pan, focus rectangle, blend, scale) is held on a grid   *)
(* of 1/Unit: the integer v stands for v/Unit, and each product or         *)
(* quotient is rounded to the nearest grid point, as a double rounds to    *)
(* the nearest representable value.  Detection boxes are whole pixels and  *)
(* an IoU is an exact fraction <<numerator, denominator>>; <<0, 0>> is the *)
(* NaN that 0/0 yields; box arithmetic is rounded to a fixed significand.  *)
(***************************************************************************)
EXTENDS Integers, Sequences, FiniteSets, TLC

VARIABLES
    isStreaming,          \* useState isStreaming
    modelState,           \* "loading" | "ready" | "failed"  (model, isModelLoading)
    isAutoZoomEnabled,    \* useState isAutoZoomEnabled
    isReacquiring,        \* useState isReacquiring
    selectedLabel,        \* useState selectedLabel ("null" when null)
    predictions,          \* predictionsRef.current
    frameCount,           \* frameCountRef.current
    isDetecting,          \* isDetectingRef.current
    selectedObject,       \* selectedObjectRef.current: <<>> (null) or <<detection>>
    trackingConfidence,   \* trackingConfidenceRef.current, a fraction
    reacquisitionCount,   \* reacquisitionCountRef.current
    zoomFactor,           \* zoomFactorRef.current
    panX,                 \* panXRef.current
    panY,                 \* panYRef.current
    focusBbox,            \* focusBboxRef.current: <<>> (null) or <<x, y, w, h>>
    focusAlpha,           \* focusAlphaRef.current
    focusScale,           \* focusScaleRef.current
    canvas,               \* <<canvas.width, canvas.height>> in pixels
    video,                \* <<video.videoWidth, video.videoHeight>> in pixels
    inflight,             \* the model.detect promises not yet settled
    streamGen,            \* how many times a stream has been started
    predictionsGen,       \* which stream's call wrote predictions (0: none)
    gestures,             \* how many clicks, clears and switch toggles the user has made
    last,                 \* the last tracker event (start, stop, click, clear, completion)
    probe                 \* a utility function under evaluation: its arguments and result

vars == <<isStreaming, modelState, isAutoZoomEnabled, isReacquiring, selectedLabel,
          predictions, frameCount, isDetecting, selectedObject, trackingConfidence,
          reacquisitionCount, zoomFactor, panX, panY, focusBbox, focusAlpha,
          focusScale, canvas, video, inflight, streamGen, predictionsGen, gestures,
          last, probe>>

-----------------------------------------------------------------------------
(* Bounds of the model *)

MaxFrame == 12
MaxStarts == 2
MaxGestures == 2
MaxFrameTrack == 34
MaxFrameE2E == 215
MaxFrameView == 31
MaxFrameZoom == 11
MaxCoord == 2
MaxFrameVisionFeed == 21
MaxFrameMatch == 21
MaxFrameCadence == 37
MaxLockFrame == 10
MaxFrameSchedule == 46
MaxDelay == 4
MaxFrameConfidence == 21

-----------------------------------------------------------------------------
(* Numbers *)

Unit == 10 * 10

RoundDiv(n, d) == (2 * n + d) \div (2 * d)

Px(p) == p * Unit

Zero == <<0, 1>>
One == <<1, 1>>
NaN == <<0, 0>>

RECURSIVE Gcd(_, _)
Gcd(a, b) == IF b = 0 THEN a ELSE Gcd(b, a % b)

Frac(n, d) ==
    IF d = 0 THEN NaN
    ELSE LET g == Gcd(n, d) IN IF g = 0 THEN Zero ELSE <<n \div g, d \div g>>

\* a > b on doubles: false as soon as one side is NaN
FracGt(a, b) == a[2] > 0 /\ b[2] > 0 /\ a[1] * b[2] > b[1] * a[2]

Max(a, b) == IF a > b THEN a ELSE b
Min(a, b) == IF a < b THEN a ELSE b

\* Box arithmetic.  A box coordinate is a double; it is held as an integer count
\* of a binary fraction of a pixel, and the result of each sum, difference and
\* product is rounded as a binary floating-point unit rounds it: to Significand
\* significant bits, ties to the even significand.  (A double has 53; the detection
\* boxes used below need at most 4, so their arithmetic is exact, except PersonWide.)
Significand == 6

\* the largest odd number that needs every bit of the significand
FullSignificand == 2 ^ Significand - 1

\* the spacing of the representable numbers around n >= 0
RECURSIVE Ulp(_)
Ulp(n) == IF n < 2 ^ Significand THEN 1 ELSE 2 * Ulp(n \div 2)

FlPos(n) ==
    LET u == Ulp(n)
        q == n \div u
        r == n % u
    IN  IF 2 * r < u THEN q * u
        ELSE IF 2 * r > u THEN (q + 1) * u
        ELSE IF q % 2 = 0 THEN q * u ELSE (q + 1) * u

Fl(n) == IF n >= 0 THEN FlPos(n) ELSE 0 - FlPos(0 - n)

-----------------------------------------------------------------------------
(* Program constants *)

DetectEveryNormal == 10
DetectEveryReacquiring == 3
ReacquireAfter == 3
GiveUpAfter == 60

AcceptIoU == <<3, 10>>          \* maxIoU > 0.3
FocusRate == 15                 \* lerp(.., 0.15) of the focus rectangle
AlphaRate == 10                 \* lerp(.., 0.1) of focusAlpha and focusScale
CameraRate == 8                 \* lerp(.., 0.08) of zoom and pan
ZoomTarget == 180               \* targetZoom = 1.8
ZoomClickThreshold == 105       \* zoomFactorRef.current > 1.05
ScaleRest == 80                 \* focusScale 0.8
ScaleOnClick == 60              \* focusScale 0.6
DefaultCanvas == <<300, 150>>   \* a canvas element before its size is set

-----------------------------------------------------------------------------
(* The detections the detector may return *)

Det(c, b) == [class |-> c, bbox |-> b]

PersonA == Det("person", <<2, 2, 4, 4>>)
PersonB == Det("person", <<3, 2, 4, 4>>)     \* IoU with PersonA = 12/20
PersonFar == Det("person", <<5, 2, 4, 4>>)   \* IoU with PersonA = 4/28
CupBig == Det("cup", <<1, 1, 6, 6>>)         \* contains PersonA
CupA == Det("cup", <<2, 2, 4, 4>>)           \* PersonA's box, another label
PersonLeft == Det("person", <<1, 2, 4, 4>>)  \* IoU with PersonA = 12/20, as PersonB
PersonEdge == Det("person", <<3, 2, 5, 2>>)  \* IoU with PersonA = 6/20, exactly 0.3
\* a box whose right edge, 1 + 66, is rounded: IoU with itself = 17/16
PersonWide == Det("person", <<1, 2, 66, 4>>)

PredictionLists == { <<>>, <<CupBig, PersonA>>, <<PersonFar, PersonB>> }
TrackLists == { <<CupBig, PersonA>>, <<PersonFar, PersonB>>, <<CupBig, CupA>> }
SubjectOrNothing == { <<>>, <<CupBig, PersonA>> }

\* the subject; two equally good matches; the best match last; another label on
\* the subject's box beside a person at the acceptance threshold; no person
MatchLists == { <<CupBig, PersonA>>, <<PersonB, PersonLeft>>, <<PersonFar, PersonB>>,
                <<CupA, PersonEdge>>, <<CupBig, CupA>> }

\* nothing, the subject, or a person across a wide frame
WideLists == { <<>>, <<CupBig, PersonA>>, <<PersonWide>> }

CameraDims == <<12, 8>>
WideDims == <<80, 8>>
VideoDims == { CameraDims, <<8, 6>> }

\* canvas pixels: in CupBig and PersonA, in CupBig alone, in no box
ClickPoints == { <<3, 3>>, <<1, 1>>, <<11, 7>> }
TrackClickPoints == { <<3, 3>>, <<11, 7>> }

-----------------------------------------------------------------------------
(* Geometry utilities *)

calculateIoU(bbox1, bbox2) ==
    LET x1 == bbox1[1]  y1 == bbox1[2]  w1 == bbox1[3]  h1 == bbox1[4]
        x2 == bbox2[1]  y2 == bbox2[2]  w2 == bbox2[3]  h2 == bbox2[4]
        x_left == Max(x1, x2)
        y_top == Max(y1, y2)
        x_right == Min(Fl(x1 + w1), Fl(x2 + w2))
        y_bottom == Min(Fl(y1 + h1), Fl(y2 + h2))
    IN  IF x_right < x_left \/ y_bottom < y_top
        THEN Zero
        ELSE LET intersection_area == Fl(Fl(x_right - x_left) * Fl(y_bottom - y_top))
                 area1 == Fl(w1 * h1)
                 area2 == Fl(w2 * h2)
                 union_area == Fl(Fl(area1 + area2) - intersection_area)
             IN  Frac(intersection_area, union_area)

\* a step that moves away from the end value
lerpAway(start, end, factor) == start + RoundDiv((start - end) * factor, 100)

\* start + (end - start) * factor, factor in hundredths
lerp(start, end, factor) == start + RoundDiv((end - start) * factor, 100)

Area(d) == d.bbox[3] * d.bbox[4]

-----------------------------------------------------------------------------
(* Tracking: what an inference completion does with the current Selection *)

Tracking ==
    [ selectedObject |-> selectedObject,
      trackingConfidence |-> trackingConfidence,
      reacquisitionCount |-> reacquisitionCount,
      isReacquiring |-> isReacquiring,
      selectedLabel |-> selectedLabel ]

\* a loop that lets a later detection of equal overlap replace the best one
RECURSIVE BestMatchFromLastOnTies(_, _, _, _, _)
BestMatchFromLastOnTies(preds, i, currentSelected, maxIoU, bestMatch) ==
    IF i > Len(preds)
    THEN [maxIoU |-> maxIoU, bestMatch |-> bestMatch]
    ELSE LET prediction == preds[i]
             iou == calculateIoU(prediction.bbox, currentSelected.bbox)
         IN  IF prediction.class = currentSelected.class /\ ~FracGt(maxIoU, iou)
             THEN BestMatchFromLastOnTies(preds, i + 1, currentSelected, iou, <<prediction>>)
             ELSE BestMatchFromLastOnTies(preds, i + 1, currentSelected, maxIoU, bestMatch)

\* a loop that compares the overlap of every detection, whatever its label
RECURSIVE BestMatchFromAnyLabel(_, _, _, _, _)
BestMatchFromAnyLabel(preds, i, currentSelected, maxIoU, bestMatch) ==
    IF i > Len(preds)
    THEN [maxIoU |-> maxIoU, bestMatch |-> bestMatch]
    ELSE LET prediction == preds[i]
             iou == calculateIoU(prediction.bbox, currentSelected.bbox)
         IN  IF FracGt(iou, maxIoU)
             THEN BestMatchFromAnyLabel(preds, i + 1, currentSelected, iou, <<prediction>>)
             ELSE BestMatchFromAnyLabel(preds, i + 1, currentSelected, maxIoU, bestMatch)

\* the for loop over the returned predictions
RECURSIVE BestMatchFrom(_, _, _, _, _)
BestMatchFrom(preds, i, currentSelected, maxIoU, bestMatch) ==
    IF i > Len(preds)
    THEN [maxIoU |-> maxIoU, bestMatch |-> bestMatch]
    ELSE LET prediction == preds[i]
             iou == calculateIoU(prediction.bbox, currentSelected.bbox)
         IN  IF prediction.class = currentSelected.class /\ FracGt(iou, maxIoU)
             THEN BestMatchFrom(preds, i + 1, currentSelected, iou, <<prediction>>)
             ELSE BestMatchFrom(preds, i + 1, currentSelected, maxIoU, bestMatch)

BestMatch(preds, currentSelected) ==
    BestMatchFrom(preds, 1, currentSelected, Zero, <<>>)

Accepted(m) == FracGt(m.maxIoU, AcceptIoU) /\ m.bestMatch # <<>>

\* a match that leaves the Reacquiring flag as it was
OnMatchStaysReacquiring(t, m) ==
    [ t EXCEPT !.selectedObject = m.bestMatch,
               !.trackingConfidence = m.maxIoU,
               !.reacquisitionCount = 0 ]

OnMatch(t, m) ==
    [ t EXCEPT !.selectedObject = m.bestMatch,
               !.trackingConfidence = m.maxIoU,
               !.reacquisitionCount = 0,
               !.isReacquiring = FALSE ]

\* a miss that enters Reacquiring one cycle late
OnMissLate(t) ==
    LET n == t.reacquisitionCount + 1
        counted == [t EXCEPT !.reacquisitionCount = n]
    IN  IF n > ReacquireAfter
        THEN IF n > GiveUpAfter
             THEN [ counted EXCEPT !.trackingConfidence = Zero,
                                   !.selectedObject = <<>>,
                                   !.isReacquiring = FALSE,
                                   !.selectedLabel = "null" ]
             ELSE [ counted EXCEPT !.trackingConfidence = Zero,
                                   !.isReacquiring = TRUE ]
        ELSE counted

\* a miss branch without the give-up test
OnMissNeverGivesUp(t) ==
    LET n == t.reacquisitionCount + 1
        counted == [t EXCEPT !.reacquisitionCount = n]
    IN  IF n >= ReacquireAfter
        THEN [ counted EXCEPT !.trackingConfidence = Zero,
                              !.isReacquiring = TRUE ]
        ELSE counted

OnMiss(t) ==
    LET n == t.reacquisitionCount + 1
        counted == [t EXCEPT !.reacquisitionCount = n]
    IN  IF n >= ReacquireAfter
        THEN IF n > GiveUpAfter
             THEN [ counted EXCEPT !.trackingConfidence = Zero,
                                   !.selectedObject = <<>>,
                                   !.isReacquiring = FALSE,
                                   !.selectedLabel = "null" ]
             ELSE [ counted EXCEPT !.trackingConfidence = Zero,
                                   !.isReacquiring = TRUE ]
        ELSE counted

\* a reconciliation that, with no Selection, takes the first returned detection
ReconcileAdoptsWhenIdle(t, currentSelected, preds) ==
    IF currentSelected # <<>>
    THEN LET m == BestMatch(preds, currentSelected[1])
         IN  IF Accepted(m) THEN OnMatch(t, m) ELSE OnMiss(t)
    ELSE IF preds # <<>>
         THEN [t EXCEPT !.selectedObject = <<preds[1]>>, !.selectedLabel = preds[1].class]
         ELSE t

\* a reconciliation that counts a cycle without a Selection as a miss
ReconcileCountsIdleCycles(t, currentSelected, preds) ==
    IF currentSelected # <<>>
    THEN LET m == BestMatch(preds, currentSelected[1])
         IN  IF Accepted(m) THEN OnMatch(t, m) ELSE OnMiss(t)
    ELSE [t EXCEPT !.reacquisitionCount = @ + 1]

Reconcile(t, currentSelected, preds) ==
    IF currentSelected # <<>>
    THEN LET m == BestMatch(preds, currentSelected[1])
         IN  IF Accepted(m) THEN OnMatch(t, m) ELSE OnMiss(t)
    ELSE t

\* the Selection as it was when the call was issued
IssuedSelected(call) == call.sel

\* const currentSelected = selectedObjectRef.current, read when the promise resolves
CurrentSelected(call) == selectedObject

ResolveOp(t, currentSelected, preds) ==
    IF currentSelected = <<>> THEN "resolve_idle"
    ELSE LET m == BestMatch(preds, currentSelected[1])
         IN  IF Accepted(m) THEN "resolve_match"
             ELSE IF Reconcile(t, currentSelected, preds).selectedObject = <<>>
                  THEN "resolve_giveup" ELSE "resolve_miss"

-----------------------------------------------------------------------------
(* Click: display point to frame point, candidates, smallest area *)

\* the point in frame coordinates, on the grid
ClickToFrame(x, y) ==
    IF isAutoZoomEnabled /\ zoomFactor > ZoomClickThreshold
    THEN << RoundDiv((Px(x) - Px(canvas[1]) \div 2) * Unit, zoomFactor) + panX,
            RoundDiv((Px(y) - Px(canvas[2]) \div 2) * Unit, zoomFactor) + panY >>
    ELSE << Px(x), Px(y) >>

Contains(prediction, pt) ==
    LET bboxX == Px(prediction.bbox[1])
        bboxY == Px(prediction.bbox[2])
        width == Px(prediction.bbox[3])
        height == Px(prediction.bbox[4])
    IN  pt[1] >= bboxX /\ pt[1] <= bboxX + width /\ pt[2] >= bboxY /\ pt[2] <= bboxY + height

Candidates(preds, pt) == SelectSeq(preds, LAMBDA prediction : Contains(prediction, pt))

\* the first candidate in detection order, unsorted
FirstCandidate(candidates) == candidates[1]

\* candidates.sort(by area)[0]: the sort is stable, so the first of the smallest
SmallestFirst(candidates) ==
    LET i == CHOOSE k \in 1..Len(candidates) :
                 /\ \A j \in 1..Len(candidates) : Area(candidates[k]) <= Area(candidates[j])
                 /\ \A j \in 1..(k - 1) : Area(candidates[j]) > Area(candidates[k])
    IN  candidates[i]

-----------------------------------------------------------------------------
(* The per-frame smoother *)

Geometry ==
    [ zoomFactor |-> zoomFactor, panX |-> panX, panY |-> panY,
      focusBbox |-> focusBbox, focusAlpha |-> focusAlpha, focusScale |-> focusScale ]

InUnits(bbox) == << Px(bbox[1]), Px(bbox[2]), Px(bbox[3]), Px(bbox[4]) >>

FocusStep(focus, bbox) ==
    IF focus = <<>>
    THEN InUnits(bbox)
    ELSE << lerp(focus[1], Px(bbox[1]), FocusRate),
            lerp(focus[2], Px(bbox[2]), FocusRate),
            lerp(focus[3], Px(bbox[3]), FocusRate),
            lerp(focus[4], Px(bbox[4]), FocusRate) >>

\* a smoother whose resting zoom is 0
SmoothRestsAtZero(g, activeSelection, reacquiring, autoZoom, cv) ==
    LET locked == activeSelection # <<>> /\ ~reacquiring
        focus == IF locked THEN FocusStep(g.focusBbox, activeSelection[1].bbox)
                 ELSE g.focusBbox
        zoomOn == locked /\ autoZoom
        targetZoom == IF zoomOn THEN ZoomTarget ELSE 0
        targetPanX == IF zoomOn THEN focus[1] + RoundDiv(focus[3], 2) ELSE Px(cv[1]) \div 2
        targetPanY == IF zoomOn THEN focus[2] + RoundDiv(focus[4], 2) ELSE Px(cv[2]) \div 2
    IN  [ focusBbox |-> focus,
          focusAlpha |-> lerp(g.focusAlpha, IF locked THEN Unit ELSE 0, AlphaRate),
          focusScale |-> lerp(g.focusScale, IF locked THEN Unit ELSE ScaleRest, AlphaRate),
          zoomFactor |-> lerp(g.zoomFactor, targetZoom, CameraRate),
          panX |-> lerp(g.panX, targetPanX, CameraRate),
          panY |-> lerp(g.panY, targetPanY, CameraRate) ]

\* g: the geometry before the frame (pan already reset if the canvas was resized)
Smooth(g, activeSelection, reacquiring, autoZoom, cv) ==
    LET locked == activeSelection # <<>> /\ ~reacquiring
        focus == IF locked THEN FocusStep(g.focusBbox, activeSelection[1].bbox)
                 ELSE g.focusBbox
        zoomOn == locked /\ autoZoom
        targetZoom == IF zoomOn THEN ZoomTarget ELSE Unit
        targetPanX == IF zoomOn THEN focus[1] + RoundDiv(focus[3], 2) ELSE Px(cv[1]) \div 2
        targetPanY == IF zoomOn THEN focus[2] + RoundDiv(focus[4], 2) ELSE Px(cv[2]) \div 2
    IN  [ focusBbox |-> focus,
          focusAlpha |-> lerp(g.focusAlpha, IF locked THEN Unit ELSE 0, AlphaRate),
          focusScale |-> lerp(g.focusScale, IF locked THEN Unit ELSE ScaleRest, AlphaRate),
          zoomFactor |-> lerp(g.zoomFactor, targetZoom, CameraRate),
          panX |-> lerp(g.panX, targetPanX, CameraRate),
          panY |-> lerp(g.panY, targetPanY, CameraRate) ]

-----------------------------------------------------------------------------
(* Inference scheduling *)

\* the two cadences the wrong way round
DetectionFrequencySwapped(reacquiring) ==
    IF reacquiring THEN DetectEveryNormal ELSE DetectEveryReacquiring

DetectionFrequency(reacquiring) ==
    IF reacquiring THEN DetectEveryReacquiring ELSE DetectEveryNormal

\* the cadence test without the in-flight guard
DetectDueUnguarded(frame, reacquiring, model, detecting) ==
    frame % DetectionFrequency(reacquiring) = 0 /\ model = "ready"

\* frameCountRef.current % detectionFrequency === 0 && model && !isDetectingRef.current
DetectDue(frame, reacquiring, model, detecting) ==
    frame % DetectionFrequency(reacquiring) = 0 /\ model = "ready" /\ ~detecting

\* model.detect(video): the stream and frame of the call, the size of the frame it
\* was given, and the Selection at that moment
Call == [gen |-> streamGen, frame |-> frameCount, dims |-> video, sel |-> selectedObject]

Without(q, i) == [k \in 1..(Len(q) - 1) |-> IF k < i THEN q[k] ELSE q[k + 1]]

\* op: the event; before, reacquiring: the Selection and the flag it found;
\* call: the detect call it settled; at: the canvas point clicked
Did(op, call, at) ==
    [ op |-> op, before |-> selectedObject, reacquiring |-> isReacquiring,
      call |-> call, at |-> at ]

-----------------------------------------------------------------------------
(* Initial state: the component after its first render *)

\* every ref and state except the auto-zoom switch
MountedRefs ==
    /\ isStreaming = FALSE
    /\ modelState = "loading"
    /\ isReacquiring = FALSE
    /\ selectedLabel = "null"
    /\ predictions = <<>>
    /\ frameCount = 0
    /\ isDetecting = FALSE
    /\ selectedObject = <<>>
    /\ trackingConfidence = Zero
    /\ reacquisitionCount = 0
    /\ zoomFactor = Unit
    /\ panX = 0
    /\ panY = 0
    /\ focusBbox = <<>>
    /\ focusAlpha = 0
    /\ focusScale = ScaleRest
    /\ canvas = DefaultCanvas
    /\ video = <<0, 0>>
    /\ inflight = <<>>
    /\ streamGen = 0
    /\ predictionsGen = 0
    /\ gestures = 0
    /\ last = [ op |-> "init", before |-> <<>>, reacquiring |-> FALSE,
                call |-> <<>>, at |-> <<>> ]

Mounted == MountedRefs /\ isAutoZoomEnabled = FALSE

Init == Mounted /\ probe = <<>>

trackingVars == <<selectedObject, trackingConfidence, reacquisitionCount, isReacquiring,
                  selectedLabel>>
geometryVars == <<zoomFactor, panX, panY, focusBbox, focusAlpha, focusScale>>

-----------------------------------------------------------------------------
(* Operations *)

\* loadModel: cocoSsd.load resolves, or throws
ModelLoaded ==
    /\ modelState = "loading"
    /\ modelState' = "ready"
    /\ UNCHANGED <<probe, isStreaming, isAutoZoomEnabled, predictions, frameCount, isDetecting,
                   trackingVars, geometryVars, canvas, video, inflight, streamGen,
                   predictionsGen, last, gestures>>

ModelFailed ==
    /\ modelState = "loading"
    /\ modelState' = "failed"
    /\ UNCHANGED <<probe, isStreaming, isAutoZoomEnabled, predictions, frameCount, isDetecting,
                   trackingVars, geometryVars, canvas, video, inflight, streamGen,
                   predictionsGen, last, gestures>>

\* startCamera / handleFileChange, when the source plays: the buttons are shown
\* while not streaming and enabled once the model load has ended
StartStream(dims) ==
    /\ ~isStreaming
    /\ modelState # "loading"
    /\ isStreaming' = TRUE
    /\ video' = dims
    /\ streamGen' = streamGen + 1
    /\ last' = Did("start", <<>>, <<>>)
    /\ UNCHANGED <<probe, modelState, isAutoZoomEnabled, predictions, frameCount, isDetecting,
                   trackingVars, geometryVars, canvas, inflight, predictionsGen, gestures>>

\* a stop that leaves the zoom where the smoother had it
StopStreamKeepsZoom ==
    /\ isStreaming' = FALSE
    /\ video' = <<0, 0>>
    /\ predictions' = <<>>
    /\ predictionsGen' = 0
    /\ selectedObject' = <<>>
    /\ trackingConfidence' = Zero
    /\ reacquisitionCount' = 0
    /\ isReacquiring' = FALSE
    /\ selectedLabel' = "null"
    /\ focusBbox' = <<>>
    /\ focusAlpha' = 0
    /\ focusScale' = ScaleRest
    /\ last' = Did("stop", <<>>, <<>>)
    /\ UNCHANGED <<probe, modelState, isAutoZoomEnabled, frameCount, isDetecting, zoomFactor,
                   panX, panY, canvas, inflight, streamGen, gestures>>

\* stopStream: the stop button, and every switch of the source tab
StopStream ==
    /\ isStreaming' = FALSE
    /\ video' = <<0, 0>>
    /\ predictions' = <<>>
    /\ predictionsGen' = 0
    /\ selectedObject' = <<>>
    /\ trackingConfidence' = Zero
    /\ reacquisitionCount' = 0
    /\ isReacquiring' = FALSE
    /\ selectedLabel' = "null"
    /\ zoomFactor' = Unit
    /\ focusBbox' = <<>>
    /\ focusAlpha' = 0
    /\ focusScale' = ScaleRest
    /\ last' = Did("stop", <<>>, <<>>)
    /\ UNCHANGED <<probe, modelState, isAutoZoomEnabled, frameCount, isDetecting, panX, panY,
                   canvas, inflight, streamGen, gestures>>

\* the frame source changes its native resolution while streaming
VideoResize(dims) ==
    /\ isStreaming
    /\ video # dims
    /\ video' = dims
    /\ UNCHANGED <<probe, isStreaming, modelState, isAutoZoomEnabled, predictions, frameCount,
                   isDetecting, trackingVars, geometryVars, canvas, inflight, streamGen,
                   predictionsGen, last, gestures>>

\* the auto-zoom switch, disabled while not streaming
ToggleAutoZoom ==
    /\ isStreaming
    /\ isAutoZoomEnabled' = ~isAutoZoomEnabled
    /\ gestures' = gestures + 1
    /\ UNCHANGED <<probe, isStreaming, modelState, predictions, frameCount, isDetecting,
                   trackingVars, geometryVars, canvas, video, inflight, streamGen,
                   predictionsGen, last>>

\* a handler without the streaming test: a click on a stopped stream is handled
ClickIgnoredHandlesClick(x, y) ==
    LET candidates == Candidates(predictions, ClickToFrame(x, y))
    IN  /\ ~isStreaming
        /\ IF Len(candidates) > 0
           THEN /\ selectedObject' = <<SmallestFirst(candidates)>>
                /\ selectedLabel' = SmallestFirst(candidates).class
                /\ trackingConfidence' = One
                /\ focusScale' = ScaleOnClick
                /\ last' = Did("click_hit", <<>>, <<x, y>>)
           ELSE /\ selectedObject' = <<>>
                /\ selectedLabel' = "null"
                /\ trackingConfidence' = Zero
                /\ focusScale' = focusScale
                /\ last' = Did("click_miss", <<>>, <<x, y>>)
        /\ reacquisitionCount' = 0
        /\ isReacquiring' = FALSE
        /\ gestures' = gestures + 1
        /\ UNCHANGED <<probe, isStreaming, modelState, isAutoZoomEnabled, predictions,
                       frameCount, isDetecting, zoomFactor, panX, panY, focusBbox,
                       focusAlpha, canvas, video, inflight, streamGen, predictionsGen>>

\* handleCanvasClick, not streaming: return
ClickIgnored(x, y) ==
    /\ ~isStreaming
    /\ UNCHANGED <<probe, isStreaming, modelState, isAutoZoomEnabled, predictions, frameCount,
                   isDetecting, trackingVars, geometryVars, canvas, video, inflight,
                   streamGen, predictionsGen, last, gestures>>

\* a click that adds the clicked detection to the Selections already held
ClickHitAddsSelection(x, y) ==
    LET candidates == Candidates(predictions, ClickToFrame(x, y))
    IN  /\ isStreaming
        /\ Len(candidates) > 0
        /\ LET clickedObj == SmallestFirst(candidates)
           IN  /\ selectedObject' = <<clickedObj>> \o selectedObject
               /\ selectedLabel' = clickedObj.class
        /\ trackingConfidence' = One
        /\ reacquisitionCount' = 0
        /\ isReacquiring' = FALSE
        /\ focusScale' = ScaleOnClick
        /\ last' = Did("click_hit", <<>>, <<x, y>>)
        /\ gestures' = gestures + 1
        /\ UNCHANGED <<probe, isStreaming, modelState, isAutoZoomEnabled, predictions,
                       frameCount, isDetecting, zoomFactor, panX, panY, focusBbox,
                       focusAlpha, canvas, video, inflight, streamGen, predictionsGen>>

\* seq with d inserted before the first detection of larger area
RECURSIVE InsertByArea(_, _)
InsertByArea(seq, d) ==
    IF seq = <<>> THEN <<d>>
    ELSE IF Area(d) < Area(Head(seq)) THEN <<d>> \o seq
         ELSE <<Head(seq)>> \o InsertByArea(Tail(seq), d)

RECURSIVE SortByArea(_)
SortByArea(seq) ==
    IF seq = <<>> THEN <<>>
    ELSE InsertByArea(SortByArea(SubSeq(seq, 1, Len(seq) - 1)), seq[Len(seq)])

\* a click that sorts the detection list itself, not a copy of it
ClickHitSortsList(x, y) ==
    LET candidates == Candidates(predictions, ClickToFrame(x, y))
    IN  /\ isStreaming
        /\ Len(candidates) > 0
        /\ LET clickedObj == SmallestFirst(candidates)
           IN  /\ selectedObject' = <<clickedObj>>
               /\ selectedLabel' = clickedObj.class
        /\ predictions' = SortByArea(predictions)
        /\ trackingConfidence' = One
        /\ reacquisitionCount' = 0
        /\ isReacquiring' = FALSE
        /\ focusScale' = ScaleOnClick
        /\ last' = Did("click_hit", <<>>, <<x, y>>)
        /\ gestures' = gestures + 1
        /\ UNCHANGED <<probe, isStreaming, modelState, isAutoZoomEnabled,
                       frameCount, isDetecting, zoomFactor, panX, panY, focusBbox,
                       focusAlpha, canvas, video, inflight, streamGen, predictionsGen>>

\* a click on a detection that leaves isReacquiring as it was
ClickHitKeepsReacquiring(x, y) ==
    LET candidates == Candidates(predictions, ClickToFrame(x, y))
    IN  /\ isStreaming
        /\ Len(candidates) > 0
        /\ LET clickedObj == SmallestFirst(candidates)
           IN  /\ selectedObject' = <<clickedObj>>
               /\ selectedLabel' = clickedObj.class
        /\ trackingConfidence' = One
        /\ reacquisitionCount' = 0
        /\ focusScale' = ScaleOnClick
        /\ last' = Did("click_hit", <<>>, <<x, y>>)
        /\ gestures' = gestures + 1
        /\ UNCHANGED <<probe, isStreaming, modelState, isAutoZoomEnabled, predictions,
                       frameCount, isDetecting, zoomFactor, panX, panY, focusBbox,
                       focusAlpha, canvas, video, inflight, streamGen, predictionsGen,
                       isReacquiring>>

\* handleCanvasClick, candidates.length > 0
ClickHit(x, y) ==
    LET candidates == Candidates(predictions, ClickToFrame(x, y))
    IN  /\ isStreaming
        /\ Len(candidates) > 0
        /\ LET clickedObj == SmallestFirst(candidates)
           IN  /\ selectedObject' = <<clickedObj>>
               /\ selectedLabel' = clickedObj.class
        /\ trackingConfidence' = One
        /\ reacquisitionCount' = 0
        /\ isReacquiring' = FALSE
        /\ focusScale' = ScaleOnClick
        /\ last' = Did("click_hit", <<>>, <<x, y>>)
        /\ gestures' = gestures + 1
        /\ UNCHANGED <<probe, isStreaming, modelState, isAutoZoomEnabled, predictions,
                       frameCount, isDetecting, zoomFactor, panX, panY, focusBbox,
                       focusAlpha, canvas, video, inflight, streamGen, predictionsGen>>

\* a click outside every box that clears the Selection and nothing else
ClickMissKeepsCounter(x, y) ==
    /\ isStreaming
    /\ Len(Candidates(predictions, ClickToFrame(x, y))) = 0
    /\ selectedObject' = <<>>
    /\ selectedLabel' = "null"
    /\ gestures' = gestures + 1
    /\ last' = Did("click_miss", <<>>, <<x, y>>)
    /\ UNCHANGED <<probe, isStreaming, modelState, isAutoZoomEnabled, isReacquiring, predictions,
                   frameCount, isDetecting, trackingConfidence, reacquisitionCount,
                   geometryVars, canvas, video, inflight, streamGen, predictionsGen>>

\* handleCanvasClick, no candidate
ClickMiss(x, y) ==
    /\ isStreaming
    /\ Len(Candidates(predictions, ClickToFrame(x, y))) = 0
    /\ selectedObject' = <<>>
    /\ trackingConfidence' = Zero
    /\ reacquisitionCount' = 0
    /\ isReacquiring' = FALSE
    /\ selectedLabel' = "null"
    /\ last' = Did("click_miss", <<>>, <<x, y>>)
    /\ gestures' = gestures + 1
    /\ UNCHANGED <<probe, isStreaming, modelState, isAutoZoomEnabled, predictions, frameCount,
                   isDetecting, geometryVars, canvas, video, inflight, streamGen,
                   predictionsGen>>

handleCanvasClick(x, y) == ClickIgnored(x, y) \/ ClickHit(x, y) \/ ClickMiss(x, y)

\* a clear button that hides the badge and leaves the Selection in place
ClearSelectionBadgeOnly ==
    /\ selectedLabel # "null"
    /\ selectedLabel' = "null"
    /\ last' = Did("clear", <<>>, <<>>)
    /\ gestures' = gestures + 1
    /\ UNCHANGED <<probe, isStreaming, modelState, isAutoZoomEnabled, isReacquiring, predictions,
                   frameCount, isDetecting, trackingConfidence, reacquisitionCount,
                   geometryVars, canvas, video, inflight, streamGen, predictionsGen,
                   selectedObject>>

\* the X button of the lock badge, rendered while selectedLabel is set
ClearSelection ==
    /\ selectedLabel # "null"
    /\ selectedObject' = <<>>
    /\ selectedLabel' = "null"
    /\ last' = Did("clear", <<>>, <<>>)
    /\ gestures' = gestures + 1
    /\ UNCHANGED <<probe, isStreaming, modelState, isAutoZoomEnabled, isReacquiring, predictions,
                   frameCount, isDetecting, trackingConfidence, reacquisitionCount,
                   geometryVars, canvas, video, inflight, streamGen, predictionsGen>>

\* a tick without a frame that still counts as a frame
RenderNotReadyCounts ==
    /\ isStreaming
    /\ frameCount' = frameCount + 1
    /\ UNCHANGED <<probe, isStreaming, modelState, isAutoZoomEnabled, predictions,
                   isDetecting, trackingVars, geometryVars, canvas, video, inflight,
                   streamGen, predictionsGen, last, gestures>>

\* render, no frame available: reschedule and return
RenderNotReady ==
    /\ isStreaming
    /\ UNCHANGED <<probe, isStreaming, modelState, isAutoZoomEnabled, predictions, frameCount,
                   isDetecting, trackingVars, geometryVars, canvas, video, inflight,
                   streamGen, predictionsGen, last, gestures>>

\* render, past its early returns: the stream is on and the video has a frame
FrameReady ==
    /\ isStreaming
    /\ video[1] # 0

\* a render whose resolution sync also drops the Selection
RenderStepResizeDropsSelection ==
    LET resized == canvas # video
        start == DetectDue(frameCount, isReacquiring, modelState, isDetecting)
        g0 == IF resized
              THEN [Geometry EXCEPT !.panX = Px(video[1]) \div 2, !.panY = Px(video[2]) \div 2]
              ELSE Geometry
        g1 == Smooth(g0, selectedObject, isReacquiring, isAutoZoomEnabled, video)
    IN  /\ canvas' = video
        /\ selectedObject' = IF resized THEN <<>> ELSE selectedObject
        /\ selectedLabel' = IF resized THEN "null" ELSE selectedLabel
        /\ isDetecting' = (isDetecting \/ start)
        /\ inflight' = IF start THEN Append(inflight, Call) ELSE inflight
        /\ frameCount' = frameCount + 1
        /\ zoomFactor' = g1.zoomFactor
        /\ panX' = g1.panX
        /\ panY' = g1.panY
        /\ focusBbox' = g1.focusBbox
        /\ focusAlpha' = g1.focusAlpha
        /\ focusScale' = g1.focusScale
        /\ UNCHANGED <<probe, isStreaming, modelState, isAutoZoomEnabled, predictions,
                       trackingConfidence, reacquisitionCount, isReacquiring, video,
                       streamGen, predictionsGen, gestures, last>>

\* a render that counts the frame only when it starts no inference
RenderStepCountsIdleFrames ==
    LET resized == canvas # video
        start == DetectDue(frameCount, isReacquiring, modelState, isDetecting)
        g0 == IF resized
              THEN [Geometry EXCEPT !.panX = Px(video[1]) \div 2, !.panY = Px(video[2]) \div 2]
              ELSE Geometry
        g1 == Smooth(g0, selectedObject, isReacquiring, isAutoZoomEnabled, video)
    IN  /\ canvas' = video
        /\ isDetecting' = (isDetecting \/ start)
        /\ inflight' = IF start THEN Append(inflight, Call) ELSE inflight
        /\ frameCount' = IF start THEN frameCount ELSE frameCount + 1
        /\ zoomFactor' = g1.zoomFactor
        /\ panX' = g1.panX
        /\ panY' = g1.panY
        /\ focusBbox' = g1.focusBbox
        /\ focusAlpha' = g1.focusAlpha
        /\ focusScale' = g1.focusScale
        /\ UNCHANGED <<probe, isStreaming, modelState, isAutoZoomEnabled, predictions,
                       trackingVars, video, streamGen, predictionsGen, gestures, last>>

\* a render whose smoother steps the Selection's own box, the focus rectangle
\* sharing its array
RenderStepSmoothsSelection ==
    LET resized == canvas # video
        start == DetectDue(frameCount, isReacquiring, modelState, isDetecting)
        g0 == IF resized
              THEN [Geometry EXCEPT !.panX = Px(video[1]) \div 2, !.panY = Px(video[2]) \div 2]
              ELSE Geometry
        g1 == Smooth(g0, selectedObject, isReacquiring, isAutoZoomEnabled, video)
        f == g1.focusBbox
    IN  /\ canvas' = video
        /\ isDetecting' = (isDetecting \/ start)
        /\ inflight' = IF start THEN Append(inflight, Call) ELSE inflight
        /\ frameCount' = frameCount + 1
        /\ zoomFactor' = g1.zoomFactor
        /\ panX' = g1.panX
        /\ panY' = g1.panY
        /\ focusBbox' = f
        /\ focusAlpha' = g1.focusAlpha
        /\ focusScale' = g1.focusScale
        /\ selectedObject' =
              IF selectedObject # <<>> /\ ~isReacquiring
              THEN << [ selectedObject[1] EXCEPT !.bbox =
                          << RoundDiv(f[1], Unit), RoundDiv(f[2], Unit),
                             RoundDiv(f[3], Unit), RoundDiv(f[4], Unit) >> ] >>
              ELSE selectedObject
        /\ UNCHANGED <<probe, isStreaming, modelState, isAutoZoomEnabled, predictions,
                       trackingConfidence, reacquisitionCount, isReacquiring, selectedLabel,
                       video, streamGen, predictionsGen, gestures, last>>

\* render, after the early returns: resolution sync, inference start, frame
\* counter, smoother, compositing (which writes no state)
RenderStep ==
    LET resized == canvas # video
        start == DetectDue(frameCount, isReacquiring, modelState, isDetecting)
        g0 == IF resized
              THEN [Geometry EXCEPT !.panX = Px(video[1]) \div 2, !.panY = Px(video[2]) \div 2]
              ELSE Geometry
        g1 == Smooth(g0, selectedObject, isReacquiring, isAutoZoomEnabled, video)
    IN  /\ canvas' = video
        /\ isDetecting' = (isDetecting \/ start)
        /\ inflight' = IF start THEN Append(inflight, Call) ELSE inflight
        /\ frameCount' = frameCount + 1
        /\ zoomFactor' = g1.zoomFactor
        /\ panX' = g1.panX
        /\ panY' = g1.panY
        /\ focusBbox' = g1.focusBbox
        /\ focusAlpha' = g1.focusAlpha
        /\ focusScale' = g1.focusScale
        /\ UNCHANGED <<probe, isStreaming, modelState, isAutoZoomEnabled, predictions,
                       trackingVars, video, streamGen, predictionsGen, gestures, last>>

\* a render that waits for the outstanding inference
RenderFrameAwaitingInference == FrameReady /\ ~isDetecting /\ RenderStep

RenderFrame == FrameReady /\ RenderStep

\* model.detect(video).then(predictions => ...)
DetectResolve(i, preds) ==
    /\ i \in 1..Len(inflight)
    /\ LET call == inflight[i]
           t == Reconcile(Tracking, CurrentSelected(call), preds)
       IN  /\ predictions' = preds
           /\ predictionsGen' = call.gen
           /\ selectedObject' = t.selectedObject
           /\ trackingConfidence' = t.trackingConfidence
           /\ reacquisitionCount' = t.reacquisitionCount
           /\ isReacquiring' = t.isReacquiring
           /\ selectedLabel' = t.selectedLabel
           /\ last' = Did(ResolveOp(Tracking, CurrentSelected(call), preds), <<call>>, <<>>)
    /\ isDetecting' = FALSE
    /\ inflight' = Without(inflight, i)
    /\ UNCHANGED <<probe, isStreaming, modelState, isAutoZoomEnabled, frameCount, geometryVars,
                   canvas, video, streamGen, gestures>>

\* a rejection handler that leaves the in-flight guard set
DetectRejectKeepsGuard(i) ==
    /\ i \in 1..Len(inflight)
    /\ inflight' = Without(inflight, i)
    /\ last' = Did("reject", <<inflight[i]>>, <<>>)
    /\ UNCHANGED <<probe, isStreaming, modelState, isAutoZoomEnabled, predictions, frameCount,
                   isDetecting, trackingVars, geometryVars, canvas, video, streamGen,
                   predictionsGen, gestures>>

\* a rejection that also empties the detection list
DetectRejectDropsList(i) ==
    /\ i \in 1..Len(inflight)
    /\ isDetecting' = FALSE
    /\ inflight' = Without(inflight, i)
    /\ predictions' = <<>>
    /\ predictionsGen' = 0
    /\ last' = Did("reject", <<inflight[i]>>, <<>>)
    /\ UNCHANGED <<probe, isStreaming, modelState, isAutoZoomEnabled, frameCount,
                   trackingVars, geometryVars, canvas, video, streamGen, gestures>>

\* model.detect(video) ... .catch(() => { isDetectingRef.current = false; })
DetectReject(i) ==
    /\ i \in 1..Len(inflight)
    /\ isDetecting' = FALSE
    /\ inflight' = Without(inflight, i)
    /\ last' = Did("reject", <<inflight[i]>>, <<>>)
    /\ UNCHANGED <<probe, isStreaming, modelState, isAutoZoomEnabled, predictions, frameCount,
                   trackingVars, geometryVars, canvas, video, streamGen, predictionsGen, gestures>>

-----------------------------------------------------------------------------
(* Spec: the life cycle.  One camera resolution, auto-zoom left as it starts *)
(* (off); streams are started, stopped and restarted, the user clicks and    *)
(* clears, frames are rendered or not ready, and each detect call resolves   *)
(* or rejects at any later moment.                                           *)

Next ==
    \/ ModelLoaded
    \/ ModelFailed
    \/ streamGen < MaxStarts /\ StartStream(CameraDims)
    \/ StopStream
    \/ \E pt \in ClickPoints : gestures < MaxGestures /\ handleCanvasClick(pt[1], pt[2])
    \/ gestures < MaxGestures /\ ClearSelection
    \/ RenderNotReady
    \/ frameCount < MaxFrame /\ RenderFrame
    \/ \E i \in 1..Len(inflight), preds \in PredictionLists : DetectResolve(i, preds)
    \/ \E i \in 1..Len(inflight) : DetectReject(i)

Spec == Init /\ [][Next]_vars

(* SpecTrack: one stream followed long enough to reach Reacquiring.  The     *)
(* detector answers before the next frame is displayed.                      *)

NextTrack ==
    \/ ModelLoaded
    \/ streamGen = 0 /\ StartStream(CameraDims)
    \/ \E pt \in TrackClickPoints :
          gestures < MaxGestures /\ handleCanvasClick(pt[1], pt[2])
    \/ frameCount < MaxFrameTrack /\ inflight = <<>> /\ RenderFrame
    \/ \E i \in 1..Len(inflight), preds \in TrackLists : DetectResolve(i, preds)

SpecTrack == Init /\ [][NextTrack]_vars

(* SpecE2E: one stream, one click that locks the subject, and as many        *)
(* inference cycles as the give-up threshold needs; each cycle returns the   *)
(* subject or nothing.                                                       *)

NextE2E ==
    \/ ModelLoaded
    \/ streamGen = 0 /\ StartStream(CameraDims)
    \/ gestures = 0 /\ handleCanvasClick(3, 3)
    \/ frameCount < MaxFrameE2E /\ inflight = <<>> /\ RenderFrame
    \/ \E i \in 1..Len(inflight), preds \in SubjectOrNothing : DetectResolve(i, preds)

SpecE2E == Init /\ [][NextE2E]_vars

(* SpecView: one stream seen through the auto-zoom camera.  The user selects *)
(* the subject and switches auto-zoom, the source changes to its smaller     *)
(* resolution, calls resolve with the subject or nothing, or reject, and the *)
(* stream is stopped at any moment.                                          *)

NextView ==
    \/ ModelLoaded
    \/ streamGen = 0 /\ StartStream(CameraDims)
    \/ StopStream
    \/ gestures < MaxGestures /\ ToggleAutoZoom
    \/ gestures < MaxGestures /\ handleCanvasClick(3, 3)
    \/ \E dims \in VideoDims \ {CameraDims} : VideoResize(dims)
    \/ frameCount < MaxFrameView /\ inflight = <<>> /\ RenderFrame
    \/ \E i \in 1..Len(inflight), preds \in SubjectOrNothing : DetectResolve(i, preds)
    \/ \E i \in 1..Len(inflight) : DetectReject(i)

SpecView == Init /\ [][NextView]_vars

(* SpecZoom: the auto-zoom camera across a stop and a restart.  The subject  *)
(* is detected on every cycle.                                               *)

NextZoom ==
    \/ ModelLoaded
    \/ streamGen < MaxStarts /\ StartStream(CameraDims)
    \/ StopStream
    \/ gestures < MaxGestures /\ ToggleAutoZoom
    \/ gestures < MaxGestures /\ handleCanvasClick(3, 3)
    \/ frameCount < MaxFrameZoom /\ inflight = <<>> /\ RenderFrame
    \/ \E i \in 1..Len(inflight) : DetectResolve(i, <<CupBig, PersonA>>)

SpecZoom == Init /\ [][NextZoom]_vars

(* SpecMatch: one stream in which the user selects what is under the click    *)
(* point and each cycle returns one of the lists that tell the match rules   *)
(* apart.                                                                    *)

NextMatch ==
    \/ ModelLoaded
    \/ streamGen = 0 /\ StartStream(CameraDims)
    \/ gestures < MaxGestures /\ handleCanvasClick(3, 3)
    \/ frameCount < MaxFrameMatch /\ inflight = <<>> /\ RenderFrame
    \/ \E i \in 1..Len(inflight), preds \in MatchLists : DetectResolve(i, preds)

SpecMatch == Init /\ [][NextMatch]_vars

(* SpecCadence: one stream and one click, followed into Reacquiring.  The    *)
(* model loads or fails to load, and a call may stay outstanding over any    *)
(* number of frames before it resolves with the subject or with nothing.     *)

NextCadence ==
    \/ ModelLoaded
    \/ ModelFailed
    \/ streamGen = 0 /\ StartStream(CameraDims)
    \/ gestures = 0 /\ handleCanvasClick(3, 3)
    \/ frameCount < MaxFrameCadence /\ RenderFrame
    \/ \E i \in 1..Len(inflight), preds \in SubjectOrNothing : DetectResolve(i, preds)

SpecCadence == Init /\ [][NextCadence]_vars

(* SpecGiveUp: the stream of SpecE2E in which the subject leaves the scene    *)
(* for good: the detector can return it only to the calls of the first       *)
(* frames, and the user clicks only during them.  requestAnimationFrame      *)
(* keeps calling render while the stream is on, and every detect promise is  *)
(* settled: both are weakly fair.                                            *)

RenderNext == frameCount < MaxFrameE2E /\ inflight = <<>> /\ RenderFrame

ResolveNext ==
    \E i \in 1..Len(inflight), preds \in SubjectOrNothing :
        /\ preds # <<>> => inflight[i].frame <= MaxLockFrame
        /\ DetectResolve(i, preds)

NextGiveUp ==
    \/ ModelLoaded
    \/ streamGen = 0 /\ StartStream(CameraDims)
    \/ gestures = 0 /\ frameCount <= MaxLockFrame /\ handleCanvasClick(3, 3)
    \/ RenderNext
    \/ ResolveNext

SpecGiveUp ==
    Init /\ [][NextGiveUp]_vars /\ WF_vars(RenderNext) /\ WF_vars(ResolveNext)

(* SpecSchedule: inference scheduling over stop, restart and Reacquiring.    *)
(* A call is settled, by resolving or rejecting, within a few frames of its  *)
(* issue.  requestAnimationFrame keeps calling render while the stream is    *)
(* on, and every detect promise is settled: both are weakly fair.            *)

RenderSoon ==
    /\ frameCount < MaxFrameSchedule
    /\ IF inflight = <<>> THEN TRUE ELSE frameCount < inflight[1].frame + MaxDelay
    /\ RenderFrame

SettleNext ==
    \E i \in 1..Len(inflight) :
        \/ \E preds \in SubjectOrNothing : DetectResolve(i, preds)
        \/ DetectReject(i)

NextSchedule ==
    \/ ModelLoaded
    \/ streamGen < MaxStarts /\ StartStream(CameraDims)
    \/ StopStream
    \/ gestures = 0 /\ handleCanvasClick(3, 3)
    \/ RenderSoon
    \/ SettleNext

SpecSchedule ==
    Init /\ [][NextSchedule]_vars /\ WF_vars(RenderSoon) /\ WF_vars(SettleNext)

(* SpecLock: the whole life of a lock.  One stream, a first click, calls     *)
(* that return the subject, nothing or cups, or reject, up to the give-up    *)
(* threshold; the user clicks again, clears the lock or stops the stream     *)
(* early in the stream or late, around the give-up.                          *)

\* the subject, nothing, or cups where the subject was
LockLists == SubjectOrNothing \cup { <<CupBig, CupA>> }

EarlyOrLate == frameCount <= MaxLockFrame \/ frameCount >= MaxFrameE2E - MaxLockFrame

NextLock ==
    \/ ModelLoaded
    \/ streamGen = 0 /\ StartStream(CameraDims)
    \/ gestures = 0 /\ handleCanvasClick(3, 3)
    \/ \E pt \in TrackClickPoints :
          gestures \in 1..(MaxGestures - 1) /\ EarlyOrLate /\ handleCanvasClick(pt[1], pt[2])
    \/ gestures \in 1..(MaxGestures - 1) /\ EarlyOrLate /\ ClearSelection
    \/ EarlyOrLate /\ StopStream
    \/ frameCount < MaxFrameE2E /\ inflight = <<>> /\ RenderFrame
    \/ \E i \in 1..Len(inflight), preds \in LockLists : DetectResolve(i, preds)
    \/ \E i \in 1..Len(inflight) : DetectReject(i)

SpecLock == Init /\ [][NextLock]_vars

(* SpecConfidence: one stream of a wide frame; the user clicks, and calls    *)
(* return nothing, the subject, or a person whose box spans the frame.       *)

NextConfidence ==
    \/ ModelLoaded
    \/ streamGen = 0 /\ StartStream(WideDims)
    \/ \E pt \in TrackClickPoints :
          gestures < MaxGestures /\ handleCanvasClick(pt[1], pt[2])
    \/ frameCount < MaxFrameConfidence /\ inflight = <<>> /\ RenderFrame
    \/ \E i \in 1..Len(inflight), preds \in WideLists : DetectResolve(i, preds)

SpecConfidence == Init /\ [][NextConfidence]_vars

(* SpecIoU: calculateIoU applied to a pair of rectangles, degenerate ones     *)
(* included; a corner is near the origin or uses the whole significand.      *)

Corners == 0..MaxCoord \cup {FullSignificand}

Rectangles == { <<x, y, w, h>> : x \in Corners, y \in Corners,
                                 w \in 0..MaxCoord, h \in 0..MaxCoord }

InitIoU ==
    /\ Mounted
    /\ probe \in { [fn |-> "calculateIoU", bbox1 |-> a, bbox2 |-> b, result |-> <<>>] :
                      a \in Rectangles, b \in Rectangles }

EvalIoU ==
    /\ probe # <<>>
    /\ probe.result = <<>>
    /\ probe' = [probe EXCEPT !.result = <<calculateIoU(probe.bbox1, probe.bbox2)>>]
    /\ UNCHANGED <<isStreaming, modelState, isAutoZoomEnabled, predictions, frameCount,
                   isDetecting, trackingVars, geometryVars, canvas, video, inflight,
                   streamGen, predictionsGen, last, gestures>>

NextIoU == EvalIoU

SpecIoU == InitIoU /\ [][NextIoU]_vars

-----------------------------------------------------------------------------
(* The revision of the component in src/components/VisionFeed.tsx.  It      *)
(* differs from the one above in three places: auto-zoom starts switched on, *)
(* a click is mapped through the inverse transform whenever the switch is    *)
(* on, and the smoother zooms on every Locked frame.                         *)

ZoomTargetVisionFeed == 145     \* targetZoom = 1.45

MountedVisionFeed == MountedRefs /\ isAutoZoomEnabled = TRUE

InitVisionFeed == MountedVisionFeed /\ probe = <<>>

ClickToFrameVisionFeed(x, y) ==
    IF isAutoZoomEnabled
    THEN << RoundDiv((Px(x) - Px(canvas[1]) \div 2) * Unit, zoomFactor) + panX,
            RoundDiv((Px(y) - Px(canvas[2]) \div 2) * Unit, zoomFactor) + panY >>
    ELSE << Px(x), Px(y) >>

ClickHitVisionFeed(x, y) ==
    LET candidates == Candidates(predictions, ClickToFrameVisionFeed(x, y))
    IN  /\ isStreaming
        /\ Len(candidates) > 0
        /\ LET clickedObj == SmallestFirst(candidates)
           IN  /\ selectedObject' = <<clickedObj>>
               /\ selectedLabel' = clickedObj.class
        /\ trackingConfidence' = One
        /\ reacquisitionCount' = 0
        /\ isReacquiring' = FALSE
        /\ focusScale' = ScaleOnClick
        /\ last' = Did("click_hit", <<>>, <<x, y>>)
        /\ gestures' = gestures + 1
        /\ UNCHANGED <<probe, isStreaming, modelState, isAutoZoomEnabled, predictions,
                       frameCount, isDetecting, zoomFactor, panX, panY, focusBbox,
                       focusAlpha, canvas, video, inflight, streamGen, predictionsGen>>

ClickMissVisionFeed(x, y) ==
    /\ isStreaming
    /\ Len(Candidates(predictions, ClickToFrameVisionFeed(x, y))) = 0
    /\ selectedObject' = <<>>
    /\ trackingConfidence' = Zero
    /\ reacquisitionCount' = 0
    /\ isReacquiring' = FALSE
    /\ selectedLabel' = "null"
    /\ last' = Did("click_miss", <<>>, <<x, y>>)
    /\ gestures' = gestures + 1
    /\ UNCHANGED <<probe, isStreaming, modelState, isAutoZoomEnabled, predictions, frameCount,
                   isDetecting, geometryVars, canvas, video, inflight, streamGen,
                   predictionsGen>>

handleCanvasClickVisionFeed(x, y) ==
    ClickIgnored(x, y) \/ ClickHitVisionFeed(x, y) \/ ClickMissVisionFeed(x, y)

SmoothVisionFeed(g, activeSelection, reacquiring, cv) ==
    LET locked == activeSelection # <<>> /\ ~reacquiring
        focus == IF locked THEN FocusStep(g.focusBbox, activeSelection[1].bbox)
                 ELSE g.focusBbox
        targetZoom == IF locked THEN ZoomTargetVisionFeed ELSE Unit
        targetPanX == IF locked THEN focus[1] + RoundDiv(focus[3], 2) ELSE Px(cv[1]) \div 2
        targetPanY == IF locked THEN focus[2] + RoundDiv(focus[4], 2) ELSE Px(cv[2]) \div 2
    IN  [ focusBbox |-> focus,
          focusAlpha |-> lerp(g.focusAlpha, IF locked THEN Unit ELSE 0, AlphaRate),
          focusScale |-> lerp(g.focusScale, IF locked THEN Unit ELSE ScaleRest, AlphaRate),
          zoomFactor |-> lerp(g.zoomFactor, targetZoom, CameraRate),
          panX |-> lerp(g.panX, targetPanX, CameraRate),
          panY |-> lerp(g.panY, targetPanY, CameraRate) ]

RenderStepVisionFeed ==
    LET resized == canvas # video
        start == DetectDue(frameCount, isReacquiring, modelState, isDetecting)
        g0 == IF resized
              THEN [Geometry EXCEPT !.panX = Px(video[1]) \div 2, !.panY = Px(video[2]) \div 2]
              ELSE Geometry
        g1 == SmoothVisionFeed(g0, selectedObject, isReacquiring, video)
    IN  /\ canvas' = video
        /\ isDetecting' = (isDetecting \/ start)
        /\ inflight' = IF start THEN Append(inflight, Call) ELSE inflight
        /\ frameCount' = frameCount + 1
        /\ zoomFactor' = g1.zoomFactor
        /\ panX' = g1.panX
        /\ panY' = g1.panY
        /\ focusBbox' = g1.focusBbox
        /\ focusAlpha' = g1.focusAlpha
        /\ focusScale' = g1.focusScale
        /\ UNCHANGED <<probe, isStreaming, modelState, isAutoZoomEnabled, predictions,
                       trackingVars, video, streamGen, predictionsGen, gestures, last>>

RenderFrameVisionFeed == FrameReady /\ RenderStepVisionFeed

(* SpecVisionFeed: one stream of that revision; the user selects the subject  *)
(* and switches auto-zoom, and each cycle returns the subject or nothing.     *)

NextVisionFeed ==
    \/ ModelLoaded
    \/ streamGen = 0 /\ StartStream(CameraDims)
    \/ gestures < MaxGestures /\ ToggleAutoZoom
    \/ gestures < MaxGestures /\ handleCanvasClickVisionFeed(3, 3)
    \/ frameCount < MaxFrameVisionFeed /\ inflight = <<>> /\ RenderFrameVisionFeed
    \/ \E i \in 1..Len(inflight), preds \in SubjectOrNothing : DetectResolve(i, preds)

SpecVisionFeed == InitVisionFeed /\ [][NextVisionFeed]_vars

-----------------------------------------------------------------------------
(* Steps, as the claims speak of them *)

\* this step settles a detect call by resolving it
ResolveStep == Len(inflight') = Len(inflight) - 1 /\ last'.op # "reject"

\* this step is a click on the canvas while streaming
ClickStep == gestures' = gestures + 1 /\ last'.op \in {"click_hit", "click_miss"}

IsResolve(op) == op \in {"resolve_idle", "resolve_match", "resolve_miss", "resolve_giveup"}

-----------------------------------------------------------------------------
(* Claims *)

\* C1: at most one detection inference call is outstanding at any time, whatever
\* the interleaving of frames, clicks, completions, failures, clears, stop and
\* restart; the in-flight guard is set exactly while a call is outstanding.
C1_AtMostOneOutstanding ==
    /\ Len(inflight) <= 1
    /\ isDetecting <=> (inflight # <<>>)

\* a frame on the detection cadence (frame 10) has been rendered in a restarted
\* stream while the call issued on frame 0 of the stopped stream is still out
C1_Witness ==
    /\ isStreaming
    /\ Len(inflight) = 1
    /\ inflight[1].gen < streamGen
    /\ inflight[1].frame = 0
    /\ frameCount > DetectEveryNormal

\* C2: the result of a call that was outstanding when the stream was stopped is
\* discarded when it arrives: the detection list is never one written by a call of
\* a stopped or earlier stream, and is empty while no stream is running.
C2_StaleResultDiscarded ==
    predictions # <<>> => (isStreaming /\ predictionsGen = streamGen)

\* C3: a completion reconciles against the Selection as it is when the call
\* completes: with no Selection at that time it makes no tracking transition
\* (Selection absent, counter and isReacquiring unchanged), and with one it either
\* adopts a same-label detection overlapping that Selection by more than the
\* acceptance threshold or counts one miss against it.
C3_CompletionUsesCurrentSelection ==
    [][ ResolveStep =>
          IF selectedObject = <<>>
          THEN /\ selectedObject' = <<>>
               /\ reacquisitionCount' = reacquisitionCount
               /\ isReacquiring' = isReacquiring
          ELSE \/ /\ last'.op = "resolve_match"
                  /\ selectedObject' # <<>>
                  /\ selectedObject'[1].class = selectedObject[1].class
                  /\ FracGt(calculateIoU(selectedObject'[1].bbox, selectedObject[1].bbox),
                            AcceptIoU)
                  /\ \E k \in 1..Len(predictions') : predictions'[k] = selectedObject'[1]
               \/ /\ last'.op \in {"resolve_miss", "resolve_giveup"}
                  /\ reacquisitionCount' = reacquisitionCount + 1
                  /\ \A k \in 1..Len(predictions') :
                        predictions'[k].class = selectedObject[1].class =>
                           ~FracGt(calculateIoU(predictions'[k].bbox, selectedObject[1].bbox),
                                   AcceptIoU)
      ]_vars

\* a call issued under one Selection has completed, with a match, after the user
\* had selected another detection
C3_Witness ==
    /\ last.op = "resolve_match"
    /\ last.call[1].sel # <<>>
    /\ last.before # <<>>
    /\ last.call[1].sel # last.before

\* C4: the render step never waits for inference: while the stream is running and
\* a frame is ready, a frame can be rendered in every state in which a call is
\* outstanding, and it leaves that call outstanding.
C4_RenderNeverWaits ==
    (isStreaming /\ video[1] # 0 /\ inflight # <<>>) =>
        ENABLED (RenderFrame /\ frameCount' = frameCount + 1 /\ inflight' = inflight)

\* five frames have been rendered since the outstanding call was issued
C4_Witness ==
    /\ isStreaming
    /\ Len(inflight) = 1
    /\ inflight[1].gen = streamGen
    /\ frameCount >= inflight[1].frame + 5

\* C5: starting from a locked Selection, after 60 consecutive inference cycles
\* without an acceptable match the Selection has been cleared (state Idle).
C5_GiveUpAfter60 ==
    reacquisitionCount >= 60 => (selectedObject = <<>> /\ ~isReacquiring)

\* C6: after the tracker gives up, the Selection is absent, the state is Idle and
\* the reacquisition counter has been reset to 0.
C6_GiveUpResetsCounter ==
    last.op = "resolve_giveup" =>
        /\ selectedObject = <<>>
        /\ selectedLabel = "null"
        /\ ~isReacquiring
        /\ reacquisitionCount = 0

\* a completion that found a Selection and no acceptable match, and kept it
MissStep == ResolveStep /\ last'.op = "resolve_miss"

\* a click or a completion that locks a Selection
LockStep ==
    \/ ClickStep /\ last'.op = "click_hit"
    \/ ResolveStep /\ last'.op = "resolve_match"

\* C7: a lock leaves the counter at 0 and isReacquiring false; each following
\* cycle without an acceptable match adds one to the counter and keeps the
\* Selection with its last box; isReacquiring is false after the 1st and 2nd such
\* cycle and true once the 3rd has completed.
C7_ReacquiringAtThirdMiss ==
    [][ /\ LockStep => (reacquisitionCount' = 0 /\ ~isReacquiring')
        /\ MissStep => /\ reacquisitionCount' = reacquisitionCount + 1
                       /\ selectedObject' = selectedObject
                       /\ selectedObject' # <<>>
                       /\ isReacquiring' = (reacquisitionCount' >= 3)
      ]_vars

\* the third consecutive miss has just completed: Reacquiring, Selection kept
C7_Witness ==
    /\ last.op = "resolve_miss"
    /\ ~last.reacquiring
    /\ reacquisitionCount = 3
    /\ isReacquiring
    /\ selectedObject # <<>>
    /\ selectedObject = last.before

\* the returned detections of the Selection's label that overlap its last box by
\* more than the acceptance threshold
Acceptable(preds, sel) ==
    { k \in 1..Len(preds) :
        /\ preds[k].class = sel.class
        /\ FracGt(calculateIoU(preds[k].bbox, sel.bbox), AcceptIoU) }

\* C8: when a cycle completes while a Selection exists and the returned list holds
\* a same-label detection overlapping the Selection's last box by more than the
\* acceptance threshold, the Selection becomes such a detection (one of greatest
\* overlap), tracking confidence becomes its overlap ratio, the counter becomes 0
\* and isReacquiring false.
C8_MatchAdopted ==
    [][ (ResolveStep /\ selectedObject # <<>>
            /\ Acceptable(predictions', selectedObject[1]) # {}) =>
          /\ \E k \in Acceptable(predictions', selectedObject[1]) :
                LET iou == calculateIoU(predictions'[k].bbox, selectedObject[1].bbox)
                IN  /\ selectedObject' = <<predictions'[k]>>
                    /\ trackingConfidence' = iou
                    /\ \A j \in Acceptable(predictions', selectedObject[1]) :
                          ~FracGt(calculateIoU(predictions'[j].bbox,
                                               selectedObject[1].bbox), iou)
          /\ reacquisitionCount' = 0
          /\ isReacquiring' = FALSE
      ]_vars

\* a cycle has recovered the subject while the tracker was Reacquiring
C8_Witness ==
    /\ last.op = "resolve_match"
    /\ last.reacquiring
    /\ selectedObject # <<>>
    /\ selectedObject # last.before
    /\ reacquisitionCount = 0
    /\ ~isReacquiring

\* the detections whose box holds the frame point a click at canvas point pt maps to
HitAt(pt) ==
    { k \in 1..Len(predictions) : Contains(predictions[k], ClickToFrame(pt[1], pt[2])) }

\* C9: a click while streaming at a point inside one or more boxes of the current
\* detection list makes the Selection a copy of a containing detection of smallest
\* area, the counter 0, isReacquiring false and tracking confidence 1, whatever the
\* state before it.
C9_ClickSelectsSmallest ==
    [][ (ClickStep /\ isStreaming /\ HitAt(last'.at) # {}) =>
          /\ \E k \in HitAt(last'.at) :
                /\ \A j \in HitAt(last'.at) : Area(predictions[k]) <= Area(predictions[j])
                /\ selectedObject' = <<predictions[k]>>
                /\ selectedLabel' = predictions[k].class
          /\ reacquisitionCount' = 0
          /\ isReacquiring' = FALSE
          /\ trackingConfidence' = One
      ]_vars

\* a click while Reacquiring, inside two boxes, has replaced the Selection by the
\* smaller one
C9_Witness ==
    /\ last.op = "click_hit"
    /\ last.reacquiring
    /\ last.before # <<>>
    /\ predictions = <<CupBig, CupA>>
    /\ selectedObject = <<CupA>>
    /\ selectedObject # last.before

\* C10: a click while streaming at a point inside no box of the current detection
\* list leaves the Selection absent, selectedLabel null, the counter 0 and
\* isReacquiring false.
C10_ClickOutsideClears ==
    [][ (ClickStep /\ isStreaming /\ HitAt(last'.at) = {}) =>
          /\ selectedObject' = <<>>
          /\ selectedLabel' = "null"
          /\ reacquisitionCount' = 0
          /\ isReacquiring' = FALSE
      ]_vars

\* a click outside every box has cleared a Selection that was Reacquiring
C10_Witness ==
    /\ last.op = "click_miss"
    /\ last.before # <<>>
    /\ last.reacquiring
    /\ predictions # <<>>
    /\ selectedObject = <<>>
    /\ reacquisitionCount = 0
    /\ ~isReacquiring

\* C11: after the explicit clear action (the X button), from Locked or from
\* Reacquiring, the tracker is Idle: Selection absent, isReacquiring false, the
\* reacquisition counter 0, and the inference cadence the normal one.
C11_ClearLeavesIdle ==
    last.op = "clear" =>
        /\ selectedObject = <<>>
        /\ selectedLabel = "null"
        /\ ~isReacquiring
        /\ reacquisitionCount = 0
        /\ DetectionFrequency(isReacquiring) = DetectEveryNormal

\* C12: immediately after stopStream returns, the Selection is absent,
\* selectedLabel null, the detection list empty, the reacquisition counter 0,
\* tracking confidence 0, isReacquiring false, zoom 1, the focus rectangle absent
\* and the focus blend 0.
C12_StopResets ==
    last.op = "stop" =>
        /\ selectedObject = <<>>
        /\ selectedLabel = "null"
        /\ predictions = <<>>
        /\ reacquisitionCount = 0
        /\ trackingConfidence = Zero
        /\ ~isReacquiring
        /\ zoomFactor = Unit
        /\ focusBbox = <<>>
        /\ focusAlpha = 0

\* the stream has been stopped while Reacquiring, with auto-zoom on and the
\* camera moved off the centre of the frame
C12_Witness ==
    /\ last.op = "stop"
    /\ ~isStreaming
    /\ last.before # <<>>
    /\ last.reacquiring
    /\ isAutoZoomEnabled
    /\ panX # Px(canvas[1]) \div 2
    /\ zoomFactor = Unit

\* C13: stopping the stream zeroes the frame counter, so the first rendered frame
\* of the next stream is frame 0.
C13_StopZeroesFrameCounter ==
    last.op \in {"stop", "start"} => frameCount = 0

\* this step settles a detect call by rejecting it
RejectStep == Len(inflight') = Len(inflight) - 1 /\ last'.op = "reject"

\* C14: when an inference call rejects, the in-flight guard is released and
\* nothing else changes: the detection list keeps its last value, the Selection,
\* reacquisition counter, tracking confidence and isReacquiring are unchanged, and
\* the render loop keeps running (the stream stays on and a ready frame can be
\* rendered).
C14_RejectOnlyReleasesGuard ==
    /\ [][ RejectStep =>
             /\ isDetecting' = FALSE
             /\ predictions' = predictions
             /\ selectedObject' = selectedObject
             /\ selectedLabel' = selectedLabel
             /\ reacquisitionCount' = reacquisitionCount
             /\ trackingConfidence' = trackingConfidence
             /\ isReacquiring' = isReacquiring
             /\ isStreaming' = isStreaming
             /\ frameCount' = frameCount
             /\ UNCHANGED geometryVars
         ]_vars
    /\ []((last.op = "reject" /\ isStreaming /\ video[1] # 0) =>
             ENABLED (RenderFrame /\ frameCount' = frameCount + 1))

\* a call has rejected while a Selection and a detection list exist
C14_Witness ==
    /\ last.op = "reject"
    /\ isStreaming
    /\ ~isDetecting
    /\ inflight = <<>>
    /\ predictions # <<>>
    /\ selectedObject # <<>>
    /\ selectedObject = last.before

\* C15: a Selection comes into existence only through a click that hits a
\* detection of the current detection list: from Idle, no rendered frame,
\* inference completion, inference failure or resolution change makes a Selection
\* present.
C15_SelectionOnlyByClick ==
    [][ (selectedObject = <<>> /\ selectedObject' # <<>>) =>
          /\ ClickStep
          /\ last'.op = "click_hit"
          /\ isStreaming
          /\ \E k \in HitAt(last'.at) : selectedObject' = <<predictions[k]>>
          /\ predictions' = predictions
      ]_vars

\* the tracker is Idle after frames were rendered, the source changed its
\* resolution, a call completed with detections and a later call rejected
C15_Witness ==
    /\ isStreaming
    /\ selectedObject = <<>>
    /\ gestures = 0
    /\ last.op = "reject"
    /\ predictions # <<>>
    /\ canvas # CameraDims
    /\ canvas = video
    /\ frameCount > DetectEveryNormal

\* C16: the tracker never holds two Selections: in every reachable state there is
\* at most one selected subject, and a click that hits a detection while a
\* Selection exists replaces the old Selection (its box, label, counter and
\* confidence) instead of adding a second one.
C16_AtMostOneSelection ==
    /\ [](Len(selectedObject) <= 1)
    /\ [][ (ClickStep /\ last'.op = "click_hit" /\ selectedObject # <<>>) =>
             /\ Len(selectedObject') = 1
             /\ \E k \in HitAt(last'.at) :
                   /\ selectedObject'[1] = predictions[k]
                   /\ selectedLabel' = predictions[k].class
             /\ reacquisitionCount' = 0
             /\ trackingConfidence' = One
         ]_vars

\* a click has replaced a Locked person Selection, one miss counted against it,
\* by a cup
C16_Witness ==
    /\ last.op = "click_hit"
    /\ ~last.reacquiring
    /\ last.before # <<>>
    /\ last.before[1].class = "person"
    /\ Len(selectedObject) = 1
    /\ selectedObject[1].class = "cup"
    /\ selectedLabel = "cup"
    /\ reacquisitionCount = 0
    /\ trackingConfidence = One

\* C17: a change of the source's native resolution mid-stream does not lose or
\* change the Selection: the frame on which the canvas is resized to the new video
\* dimensions leaves the Selection (label and box), the reacquisition counter and
\* isReacquiring unchanged, and the canvas dimensions are assigned only on frames
\* where they differ from the video's.
C17_ResizeKeepsSelection ==
    [][ canvas' # canvas =>
          /\ canvas # video
          /\ canvas' = video
          /\ frameCount' = frameCount + 1
          /\ selectedObject' = selectedObject
          /\ selectedLabel' = selectedLabel
          /\ reacquisitionCount' = reacquisitionCount
          /\ isReacquiring' = isReacquiring
      ]_vars

\* a Selection confirmed by a call made on a full-size frame is still held after
\* a later frame resized the canvas to the smaller resolution
C17_Witness ==
    /\ isStreaming
    /\ last.op = "resolve_match"
    /\ last.call[1].dims = CameraDims
    /\ last.before # <<>>
    /\ selectedObject # <<>>
    /\ selectedLabel = selectedObject[1].class
    /\ canvas # CameraDims
    /\ canvas = video
    /\ frameCount > last.call[1].frame + 1

\* C18: when the frame source is not ready, a render tick is a no-op that
\* reschedules itself: the frame counter, in-flight guard, detection list,
\* Selection and all smoothed values are unchanged, no inference is started, and
\* while the stream is on the loop always has a next tick (the tick can be taken
\* in every streaming state and leaves the stream on).
C18_NotReadyTickIsNoOp ==
    isStreaming =>
        ENABLED ( /\ RenderNotReady
                  /\ isStreaming'
                  /\ UNCHANGED <<frameCount, isDetecting, inflight, predictions,
                                 trackingVars, geometryVars, canvas>> )

\* mid-stream, with a Selection held and the call of frame 10 outstanding
C18_Witness ==
    /\ isStreaming
    /\ selectedObject # <<>>
    /\ isDetecting
    /\ Len(inflight) = 1
    /\ inflight[1].frame = DetectEveryNormal
    /\ frameCount = DetectEveryNormal + 1
    /\ focusBbox # <<>>

\* the frame point the compositor draws at canvas point <<x, y>>:
\* ctx.translate(center); ctx.scale(zoom); ctx.translate(-pan) inverted
DrawnAt(x, y) ==
    << RoundDiv((Px(x) - Px(canvas[1]) \div 2) * Unit, zoomFactor) + panX,
       RoundDiv((Px(y) - Px(canvas[2]) \div 2) * Unit, zoomFactor) + panY >>

\* C19: the click-to-frame mapping is the inverse of the render transform in
\* every reachable state: a click at a display position is resolved to the frame
\* point drawn there, frameX = (displayX - centerX)/zoom + panX (same for Y), with
\* the zoom and pan of the last rendered frame, whatever the auto-zoom switch and
\* the zoom value are.  Stated for the states that follow a completion of a call
\* of the running stream, where a frame of that stream has been drawn and no
\* stop has touched the zoom since.
C19_ClickInvertsRender ==
    (isStreaming /\ canvas = video /\ IsResolve(last.op) /\ last.call[1].gen = streamGen) =>
        \A pt \in ClickPoints : ClickToFrame(pt[1], pt[2]) = DrawnAt(pt[1], pt[2])

\* the two rectangles have no point in common
Disjoint(a, b) ==
    \/ a[1] + a[3] < b[1]
    \/ b[1] + b[3] < a[1]
    \/ a[2] + a[4] < b[2]
    \/ b[2] + b[4] < a[2]

\* C20: calculateIoU is symmetric (calculateIoU(a,b) = calculateIoU(b,a) for all
\* rectangles), returns exactly 0 for disjoint rectangles, and returns 1 for two
\* identical rectangles of positive area.
C20_IoUSymmetricZeroOne ==
    (probe # <<>> /\ probe.result # <<>>) =>
        LET a == probe.bbox1
            b == probe.bbox2
            r == probe.result[1]
        IN  /\ r = calculateIoU(b, a)
            /\ Disjoint(a, b) => r = Zero
            /\ (a = b /\ a[3] * a[4] > 0) => r = One

\* the fraction is a number between 0 and 1
InZeroOne(r) == r[2] > 0 /\ r[1] >= 0 /\ r[1] <= r[2]

\* C21: for all rectangles calculateIoU returns a defined value in [0,1], and it
\* returns 0 whenever the rectangles do not intersect or either rectangle has
\* non-positive area, two zero-area rectangles at the same position included.
C21_IoUDefinedInZeroOne ==
    (probe # <<>> /\ probe.result # <<>>) =>
        LET a == probe.bbox1
            b == probe.bbox2
            r == probe.result[1]
        IN  /\ InZeroOne(r)
            /\ (Disjoint(a, b) \/ a[3] * a[4] <= 0 \/ b[3] * b[4] <= 0) => r = Zero

\* a frame is rendered while a Selection is Locked and the focus rectangle exists
FocusFrame ==
    /\ frameCount' = frameCount + 1
    /\ selectedObject # <<>>
    /\ ~isReacquiring
    /\ focusBbox # <<>>

\* the squared Euclidean distance between two rectangles on the grid
Dist2(f, t) ==
    (f[1] - t[1]) ^ 2 + (f[2] - t[2]) ^ 2 + (f[3] - t[3]) ^ 2 + (f[4] - t[4]) ^ 2

\* no component of f has passed t on its way to g
NoOvershoot(f, g, t) == \A i \in 1..4 : (t[i] - f[i]) * (t[i] - g[i]) >= 0

\* the largest difference whose lerp step at the focus rate rounds to nothing
Epsilon == (100 \div 2) \div FocusRate

\* C22 as stated: with the Selection box T fixed and the tracker Locked, on each
\* rendered frame every component of the focus rectangle moves by
\* lerp(current, T, 0.15), the distance from the focus rectangle to T strictly
\* decreases on every frame while it differs from T, and no component overshoots T.
C22_FocusStrictlyConverges ==
    [][ FocusFrame =>
          LET T == InUnits(selectedObject[1].bbox)
          IN  /\ \A i \in 1..4 : focusBbox'[i] = lerp(focusBbox[i], T[i], FocusRate)
              /\ focusBbox # T => Dist2(focusBbox', T) < Dist2(focusBbox, T)
              /\ NoOvershoot(focusBbox, focusBbox', T)
      ]_vars

\* C22 amended: the distance never increases, it strictly decreases on every frame
\* on which some component is farther from T than the rounding granularity, and
\* no component overshoots T.
C22_FocusConvergesToEpsilon ==
    [][ FocusFrame =>
          LET T == InUnits(selectedObject[1].bbox)
          IN  /\ \A i \in 1..4 : focusBbox'[i] = lerp(focusBbox[i], T[i], FocusRate)
              /\ Dist2(focusBbox', T) <= Dist2(focusBbox, T)
              /\ (\E i \in 1..4 : focusBbox[i] - T[i] > Epsilon \/ T[i] - focusBbox[i] > Epsilon)
                    => Dist2(focusBbox', T) < Dist2(focusBbox, T)
              /\ NoOvershoot(focusBbox, focusBbox', T)
      ]_vars

\* the focus rectangle is on its way from the box first selected to the box of
\* the match that replaced it, closer to the new box than to the old
C22_Witness ==
    /\ isStreaming
    /\ selectedObject = <<PersonB>>
    /\ ~isReacquiring
    /\ focusBbox # <<>>
    /\ focusBbox[1] > Px(PersonA.bbox[1]) + Unit \div 2
    /\ focusBbox[1] < Px(PersonB.bbox[1]) - Epsilon

\* a frame is rendered
FrameStep == frameCount' = frameCount + 1

\* target: the value lerp steps toward; the step did not land on it at once
Gradual(before, after, target) == before # target => after # target

\* C23: while streaming, the smoothed geometry (focus rectangle, focus blend, scale
\* factor, zoom, panX, panY) is changed only by the per-frame smoother step, once
\* per rendered frame, each change a lerp step toward the target that never sets
\* the value to the target in one step: a click, an inference completion and the
\* canvas resolution sync leave these values unchanged, and a newly created
\* Selection's box is approached gradually rather than adopted at once.
C23_GeometryOnlySmoothed ==
    [][ (isStreaming /\ isStreaming') =>
          /\ (ClickStep \/ ResolveStep) => UNCHANGED geometryVars
          /\ ~FrameStep => UNCHANGED geometryVars
          /\ FrameStep =>
                LET locked == selectedObject # <<>> /\ ~isReacquiring
                    centerX == Px(canvas'[1]) \div 2
                    centerY == Px(canvas'[2]) \div 2
                IN  /\ Geometry' = Smooth(Geometry, selectedObject, isReacquiring,
                                          isAutoZoomEnabled, canvas')
                    /\ Gradual(focusAlpha, focusAlpha', IF locked THEN Unit ELSE 0)
                    /\ Gradual(zoomFactor, zoomFactor',
                               IF locked /\ isAutoZoomEnabled THEN ZoomTarget ELSE Unit)
                    /\ ~(locked /\ isAutoZoomEnabled) =>
                          /\ Gradual(panX, panX', centerX)
                          /\ Gradual(panY, panY', centerY)
                    /\ locked => Gradual(focusBbox, focusBbox',
                                         InUnits(selectedObject[1].bbox))
      ]_vars

\* C24: in every reachable state the zoom factor is at least 1 and at most the
\* auto-zoom target, and the focus blend is within [0,1], for any sequence of
\* frames, clicks, toggles of auto-zoom, inference completions and stop/restart.
C24_ZoomAndBlendInRange ==
    /\ zoomFactor >= Unit
    /\ zoomFactor <= ZoomTarget
    /\ focusAlpha >= 0
    /\ focusAlpha <= Unit

\* in a restarted stream the camera has zoomed in on a Selection and the focus
\* blend is on its way to 1
C24_Witness ==
    /\ isStreaming
    /\ streamGen = MaxStarts
    /\ isAutoZoomEnabled
    /\ selectedObject # <<>>
    /\ zoomFactor > ZoomClickThreshold
    /\ focusAlpha > AlphaRate
    /\ focusAlpha < Unit

\* C25: on every rendered frame on which a Selection is present (Locked or
\* Reacquiring) the focus blend moves toward 1 and each component of the focus
\* rectangle moves toward the Selection's box; on every rendered frame with no
\* Selection the focus blend moves toward 0 and the scale factor toward its
\* resting value.
C25_FocusFollowsSelection ==
    [][ (isStreaming /\ FrameStep) =>
          IF selectedObject # <<>>
          THEN LET T == InUnits(selectedObject[1].bbox)
               IN  /\ focusAlpha' = lerp(focusAlpha, Unit, AlphaRate)
                   /\ focusAlpha' >= focusAlpha
                   /\ focusBbox' = FocusStep(focusBbox, selectedObject[1].bbox)
                   /\ focusBbox # <<>> => /\ Dist2(focusBbox', T) <= Dist2(focusBbox, T)
                                          /\ NoOvershoot(focusBbox, focusBbox', T)
          ELSE /\ focusAlpha' = lerp(focusAlpha, 0, AlphaRate)
               /\ focusAlpha' <= focusAlpha
               /\ focusScale' = lerp(focusScale, ScaleRest, AlphaRate)
      ]_vars

\* C26: on every rendered frame on which auto-zoom is disabled the zoom target is
\* 1 and the pan target is the frame center, whether or not a Selection is locked,
\* so with auto-zoom off the zoom factor never increases; with auto-zoom enabled
\* and a Selection locked the zoom target is greater than 1 and the pan target is
\* the center of the focus rectangle.
C26_ZoomTargetFollowsSwitch ==
    [][ (isStreaming /\ FrameStep) =>
          LET locked == selectedObject # <<>> /\ ~isReacquiring
              resized == canvas # canvas'
              centerX == Px(canvas'[1]) \div 2
              centerY == Px(canvas'[2]) \div 2
              fromX == IF resized THEN centerX ELSE panX
              fromY == IF resized THEN centerY ELSE panY
          IN  /\ ~isAutoZoomEnabled =>
                    /\ zoomFactor' = lerp(zoomFactor, Unit, CameraRate)
                    /\ zoomFactor' <= zoomFactor
                    /\ panX' = lerp(fromX, centerX, CameraRate)
                    /\ panY' = lerp(fromY, centerY, CameraRate)
              /\ (isAutoZoomEnabled /\ locked) =>
                    /\ zoomFactor' >= zoomFactor
                    /\ zoomFactor = Unit => zoomFactor' > Unit
                    /\ panX' = lerp(fromX, focusBbox'[1] + RoundDiv(focusBbox'[3], 2),
                                    CameraRate)
                    /\ panY' = lerp(fromY, focusBbox'[2] + RoundDiv(focusBbox'[4], 2),
                                    CameraRate)
      ]_vars

\* the returned detections that carry the Selection's label
SameLabel(preds, sel) == { k \in 1..Len(preds) : preds[k].class = sel.class }

\* the first of the same-label detections of greatest overlap with the Selection
FirstBest(preds, sel) ==
    CHOOSE k \in SameLabel(preds, sel) :
        /\ \A j \in SameLabel(preds, sel) :
              ~FracGt(calculateIoU(preds[j].bbox, sel.bbox),
                      calculateIoU(preds[k].bbox, sel.bbox))
        /\ \A j \in SameLabel(preds, sel) :
              j < k => FracGt(calculateIoU(preds[k].bbox, sel.bbox),
                              calculateIoU(preds[j].bbox, sel.bbox))

\* C27: in a detection cycle only the returned detections with the Selection's
\* label are candidates, the candidate of maximum calculateIoU against the
\* Selection's last box is chosen (the first one on ties), and it is accepted only
\* if that IoU is strictly greater than 0.3; a detection of another label is never
\* adopted however large its overlap, and a best IoU of exactly 0.3 or an empty
\* candidate set counts as a miss.
C27_MatchChoice ==
    [][ (ResolveStep /\ selectedObject # <<>>) =>
          LET sel == selectedObject[1]
              P == predictions'
              best == FirstBest(P, sel)
          IN  /\ selectedObject' # <<>> => selectedObject'[1].class = sel.class
              /\ IF SameLabel(P, sel) # {}
                    /\ FracGt(calculateIoU(P[best].bbox, sel.bbox), AcceptIoU)
                 THEN /\ selectedObject' = <<P[best]>>
                      /\ trackingConfidence' = calculateIoU(P[best].bbox, sel.bbox)
                      /\ last'.op = "resolve_match"
                 ELSE /\ last'.op \in {"resolve_miss", "resolve_giveup"}
                      /\ reacquisitionCount' = reacquisitionCount + 1
                      /\ selectedObject' \in {selectedObject, <<>>}
      ]_vars

\* of two persons of equal overlap with the Selection the first has been adopted
C27_Witness ==
    /\ last.op = "resolve_match"
    /\ last.before = <<PersonA>>
    /\ predictions = <<PersonB, PersonLeft>>
    /\ selectedObject = <<PersonB>>
    /\ trackingConfidence = <<3, 5>>

\* this step starts an inference call
CallStarted == Len(inflight') = Len(inflight) + 1

\* C28: an inference call is started on a rendered frame exactly when the frame
\* counter, before its increment, is a multiple of K, the model is loaded and no
\* call is outstanding, where K is 3 while isReacquiring is true and 10 otherwise;
\* on all other rendered frames, and outside rendered frames, no call is started.
C28_InferenceCadence ==
    [][ /\ CallStarted => FrameStep
        /\ FrameStep =>
              LET K == IF isReacquiring THEN 3 ELSE 10
              IN  /\ CallStarted <=>
                        (frameCount % K = 0 /\ modelState = "ready" /\ inflight = <<>>)
                  /\ CallStarted => /\ inflight'[Len(inflight')].frame = frameCount
                                    /\ isDetecting'
      ]_vars

\* while Reacquiring a call has been started on frame 33, a multiple of 3 and not
\* of 10, and the following frame has been rendered without starting another
C28_Witness ==
    /\ isStreaming
    /\ isReacquiring
    /\ selectedObject # <<>>
    /\ Len(inflight) = 1
    /\ inflight[1].frame % DetectEveryNormal # 0
    /\ inflight[1].frame % DetectEveryReacquiring = 0
    /\ frameCount > inflight[1].frame + 1

\* this step is the explicit clear (the X button)
ClearStep == gestures' = gestures + 1 /\ last'.op = "clear"

\* C29: while streaming, the detection list is written only by a successful
\* inference completion, which replaces the whole list with the returned one: a
\* rendered frame, a click (its area sort of the candidates included), the
\* explicit clear and a failed inference leave the list's contents and order
\* unchanged, and tracking transitions other than those caused by a click or the
\* explicit clear happen only inside an inference completion.
C29_ListWrittenOnlyByCompletion ==
    [][ (isStreaming /\ isStreaming') =>
          /\ predictions' # predictions => ResolveStep
          /\ ResolveStep => predictions' \in PredictionLists
          /\ (FrameStep \/ ClickStep \/ ClearStep \/ RejectStep) => predictions' = predictions
          /\ ~UNCHANGED trackingVars => (ClickStep \/ ClearStep \/ ResolveStep)
      ]_vars

\* a click inside both boxes of a list whose larger box comes first has selected
\* the smaller one, and the list is as the detector returned it
C29_Witness ==
    /\ isStreaming
    /\ last.op = "click_hit"
    /\ predictions = <<CupBig, PersonA>>
    /\ selectedObject = <<PersonA>>
    /\ Area(predictions[1]) > Area(predictions[2])

\* C30: give-up is eventually reached: if a Selection exists, the stream keeps
\* rendering ready frames, every inference call eventually resolves, and from
\* some point on no cycle returns an acceptable match and the user does not click,
\* then the tracker eventually becomes Idle with the Selection absent,
\* selectedLabel null and isReacquiring false, and it gives up from Reacquiring.
C30_GiveUpEventually ==
    /\ (selectedObject # <<>>) ~>
          (selectedObject = <<>> /\ selectedLabel = "null" /\ ~isReacquiring)
    /\ [][ (ResolveStep /\ last'.op = "resolve_giveup") =>
              (isReacquiring /\ selectedObject # <<>>) ]_vars

\* the tracker has given up from Reacquiring and is Idle
C30_Witness ==
    /\ isStreaming
    /\ last.op = "resolve_giveup"
    /\ last.reacquiring
    /\ last.before # <<>>
    /\ selectedObject = <<>>
    /\ selectedLabel = "null"
    /\ ~isReacquiring

\* this step is an event other than a rendered frame: a click, a clear, the
\* settling of a call, or the end of the model load
OtherEvent ==
    \/ ClickStep
    \/ ClearStep
    \/ ResolveStep
    \/ RejectStep
    \/ modelState' # modelState

\* C31: while streaming, the frame counter increases by exactly 1 on every
\* rendered (ready) frame and is changed by nothing else: it never decreases, and
\* not-ready ticks, clicks, explicit clears, inference completions and failures
\* leave it unchanged.
C31_FrameCounterCountsFrames ==
    /\ [][ (isStreaming /\ isStreaming') =>
             /\ frameCount' >= frameCount
             /\ OtherEvent => frameCount' = frameCount
             /\ ~OtherEvent => (frameCount' = frameCount + 1 /\ video[1] # 0)
         ]_vars
    /\ [](isStreaming => ENABLED (RenderNotReady /\ frameCount' = frameCount))

\* in a restarted stream twelve frames have been rendered in all, a call has
\* completed and the user has clicked
C31_Witness ==
    /\ isStreaming
    /\ streamGen = MaxStarts
    /\ frameCount = MaxFrame
    /\ gestures > 0
    /\ IsResolve(last.op)

\* C32: inference keeps being scheduled: if the stream keeps rendering ready
\* frames, the model is loaded and every detect call eventually resolves or
\* rejects, then the in-flight guard is always eventually released, and whenever
\* it is free a new inference call is eventually started (unless the stream is
\* stopped), also after a stop and restart with a call outstanding and after
\* isReacquiring changed the cadence.  The second part is stated for the frames
\* that leave a whole cadence period before the frame bound.
C32_InferenceKeepsBeingScheduled ==
    /\ isDetecting ~> ~isDetecting
    /\ (isStreaming /\ modelState = "ready" /\ ~isDetecting
           /\ frameCount <= MaxFrameSchedule - DetectEveryNormal)
          ~> (inflight # <<>> \/ ~isStreaming)

\* in a restarted stream, while Reacquiring, a call has been started on a frame
\* of the faster cadence after a call of the stopped stream was settled
C32_Witness ==
    /\ isStreaming
    /\ streamGen = MaxStarts
    /\ isReacquiring
    /\ Len(inflight) = 1
    /\ inflight[1].gen = streamGen
    /\ inflight[1].frame % DetectEveryNormal # 0

\* C33: whenever a Selection is present, isReacquiring is true exactly when the
\* reacquisition counter is at least 3; this holds in every reachable state, so
\* after every click, inference completion, inference failure and rendered frame.
C33_ReacquiringIffCounterAtLeastThree ==
    selectedObject # <<>> => (isReacquiring <=> reacquisitionCount >= ReacquireAfter)

\* a call is rejected while the tracker is Reacquiring the Selection made by the
\* user's second click
C33_Witness ==
    /\ selectedObject # <<>>
    /\ isReacquiring
    /\ reacquisitionCount >= ReacquireAfter
    /\ gestures = MaxGestures
    /\ last.op = "reject"

\* this step is an inference completion that finds a Selection and no acceptable
\* match for it in the returned list
UnmatchedStep ==
    /\ ResolveStep
    /\ selectedObject # <<>>
    /\ Acceptable(predictions', selectedObject[1]) = {}

\* C34: the reacquisition counter is bounded: in every reachable state it is
\* between 0 and 61, it is at most 60 while a Selection is present, and it is
\* incremented only by an inference completion that finds a Selection and no
\* acceptable match, by exactly 1 per such completion.
C34_CounterBounded ==
    /\ [](reacquisitionCount \in 0..(GiveUpAfter + 1))
    /\ [](selectedObject # <<>> => reacquisitionCount <= GiveUpAfter)
    /\ [][ /\ reacquisitionCount' > reacquisitionCount => UnmatchedStep
           /\ UnmatchedStep => reacquisitionCount' = reacquisitionCount + 1 ]_vars

\* the give-up of the Selection made by the user's second click: counter 61
C34_Witness ==
    /\ reacquisitionCount = GiveUpAfter + 1
    /\ selectedObject = <<>>
    /\ last.op = "resolve_giveup"
    /\ gestures = MaxGestures

\* C35: the lock badge is consistent with the tracker: in every reachable state
\* selectedLabel is non-null exactly when a Selection is present, and then equals
\* the Selection's class; across clicks, matches, misses, give-up, clear and stop.
C35_BadgeFollowsSelection ==
    /\ selectedLabel # "null" <=> selectedObject # <<>>
    /\ selectedObject # <<>> => selectedLabel = selectedObject[1].class

\* the badge reads "cup" after the user's second click chose a cup and a cycle
\* matched it
C35_Witness ==
    /\ gestures = MaxGestures
    /\ last.op = "resolve_match"
    /\ selectedObject # <<>>
    /\ selectedObject[1].class = "cup"
    /\ selectedLabel = "cup"

\* C36: tracking never changes the subject's label: a click that selects takes
\* the class of a detection under the click, and between two clicks every
\* inference completion (every step that is not a click) that leaves a Selection
\* leaves it with the class it had, whatever detections are returned.
C36_LabelFixedBetweenClicks ==
    [][ /\ (ClickStep /\ selectedObject' # <<>>) =>
              \E k \in HitAt(last'.at) : selectedObject'[1].class = predictions[k].class
        /\ (~ClickStep /\ selectedObject' # <<>>) =>
              /\ selectedObject # <<>>
              /\ selectedObject'[1].class = selectedObject[1].class ]_vars

\* a cycle matched the Selection while the returned list held a detection of
\* another label exactly on the Selection's previous box
C36_Witness ==
    /\ last.op = "resolve_match"
    /\ selectedObject # <<>>
    /\ \E k \in 1..Len(predictions) :
          /\ predictions[k].class # selectedObject[1].class
          /\ predictions[k].bbox = last.before[1].bbox

\* this step is an inference completion that finds a Selection and an acceptable
\* match for it in the returned list
MatchedStep ==
    /\ ResolveStep
    /\ selectedObject # <<>>
    /\ Acceptable(predictions', selectedObject[1]) # {}

\* C37: tracking confidence is consistent with the state: it is 1 right after a
\* click that selects, equals the accepted IoU (hence greater than 0.3 and at
\* most 1) right after a matching cycle, and is 0 whenever the tracker is
\* Reacquiring and after a click that clears.
C37_ConfidenceConsistent ==
    /\ [][ /\ (ClickStep /\ selectedObject' # <<>>) => trackingConfidence' = One
           /\ (ClickStep /\ selectedObject' = <<>>) => trackingConfidence' = Zero
           /\ MatchedStep =>
                 /\ \E k \in Acceptable(predictions', selectedObject[1]) :
                       trackingConfidence' =
                           calculateIoU(predictions'[k].bbox, selectedObject[1].bbox)
                 /\ FracGt(trackingConfidence', AcceptIoU)
                 /\ ~FracGt(trackingConfidence', One) ]_vars
    /\ [](isReacquiring => trackingConfidence = Zero)

\* C38: advancing the smoother never alters tracker data: a rendered frame leaves
\* the Selection (its box and label), selectedLabel, every box in the detection
\* list, the reacquisition counter and tracking confidence unchanged, although
\* the focus rectangle starts as the Selection's box and is then stepped.
C38_FrameLeavesTrackerData ==
    [][ FrameStep =>
           /\ selectedObject' = selectedObject
           /\ selectedLabel' = selectedLabel
           /\ predictions' = predictions
           /\ reacquisitionCount' = reacquisitionCount
           /\ trackingConfidence' = trackingConfidence ]_vars

\* after a match moved the Selection, frames have stepped the focus rectangle
\* away from the box it started as and not yet onto the Selection's box
C38_Witness ==
    /\ last.op = "resolve_match"
    /\ selectedObject # <<>>
    /\ focusBbox # <<>>
    /\ focusBbox # InUnits(selectedObject[1].bbox)
    /\ focusBbox # InUnits(last.before[1].bbox)
    /\ selectedObject[1].bbox # last.before[1].bbox

\* what a click may write
clickVars == <<selectedObject, selectedLabel, reacquisitionCount, trackingConfidence,
               isReacquiring, geometryVars>>

\* C39: a click on the canvas while the stream is not running is ignored: the
\* click can always be made, and no click at any point changes the Selection,
\* selectedLabel, the reacquisition counter, tracking confidence, isReacquiring
\* or the smoothed values.
C39_ClickWhileStoppedIgnored ==
    ~isStreaming =>
        \A pt \in ClickPoints :
            /\ ENABLED handleCanvasClick(pt[1], pt[2])
            /\ ~ENABLED (handleCanvasClick(pt[1], pt[2]) /\ clickVars' # clickVars)

\* a stopped stream whose detection list, left by a call that resolved after the
\* stop, holds a detection under a click point
C39_Witness ==
    /\ ~isStreaming
    /\ streamGen > 0
    /\ HitAt(<<3, 3>>) # {}
    /\ gestures < MaxGestures

====
